---- MODULE Spec2Model ----
(***************************************************************************)
(* Model of the Unicode word tokenizer of tantivy.swift                    *)
(* (src/src/unicode_tokenizer.rs): the word segmenter it calls, the        *)
(* intra-word splitter, the apostrophe merger, the dash-compound expander  *)
(* and the token stream that hands the computed tokens out one by one;     *)
(* and of the schema builder and the index of src/src/lib.rs.              *)
(*                                                                         *)
(* A text is a sequence of characters; a character is named by a string.   *)
(* Offsets are byte offsets, so every character carries its UTF-8 length.  *)
(***************************************************************************)
EXTENDS Integers, Sequences, FiniteSets, TLC

VARIABLES
    text,            \* the &str the current stream was built for
    has_stream,      \* whether token_stream has been called on the tokenizer
    token,           \* UnicodeTokenizer.token, borrowed by the stream
    pending_tokens,  \* UnicodeTokenStream.pending_tokens
    last_advance,    \* what the last advance() returned ("none" before any)
    streams,         \* number of token_stream calls on this tokenizer
    trace,           \* history: tokenize_text(text) with its intermediate values
    emitted,         \* history: the Token values this stream has emitted
    prev_run,        \* history: <<what the previous stream emitted>> when it was
                     \* drained and was built for the same text, else <<>>
    last_read,       \* history: <<what token() returned>> for the last call
                     \* since the last advance(), <<>> when there was none
    builder,         \* TantivySchemaBuilder.builder: <<>> for None, <<fields>>
                     \* for Some(builder), fields the names added so far
    nws,             \* the new_with_schema calls on the builder: where every
                     \* thread is in its call, its schema, what its last call
                     \* returned, and the history of the calls
    writer,          \* TantivyIndex.writer: the operations added to the
                     \* IndexWriter since its last commit, in order
    segments,        \* TantivyIndex.index: the documents of the last commit
    searcher,        \* TantivyIndex.reader: the documents its searcher sees
    last_call        \* history: the last method called on the index, with
                     \* its arguments and what it returned

\* the tokenizer and its stream
tokvars == <<text, has_stream, token, pending_tokens, last_advance, streams,
             trace, emitted, prev_run, last_read>>

\* the schema builder and the index
libvars == <<builder, nws, writer, segments, searcher, last_call>>

vars == <<tokvars, libvars>>

\* what unicode_word_indices gave for text
words == trace.words
\* split_word_tokens of every word of text, in order
raw_tokens == trace.raw
\* merged_tokens as handed to expand_dash_compounds
merged_tokens == trace.merged
\* the list tokenize_text returned
all_tokens == trace.expanded
\* a slice in tokenize_text was out of order or out of range
panicked == trace.panic

----------------------------------------------------------------------------
(* Bounds of the model.                                                    *)

\* longest text, in characters, of the single-stream specification
MaxLen == 5
\* longest text, in characters, of the dash-run specification
MaxDashLen == 6
\* longest text, in characters, of the apostrophe specification
MaxAposLen == 5
\* longest text, in characters, when one tokenizer is reused
MaxReuseLen == 3
\* token_stream calls on one tokenizer
MaxStreams == 2
\* longest text, in characters, of the separator specification
MaxSepLen == 5
\* longest text, in characters, of the word-splitting specification
MaxWordLen == 5
\* longest text, in characters, when the current token is read
MaxReadLen == 3
\* threads that call new_with_schema with one builder
MaxThreads == 2
\* new_with_schema calls on one builder, all threads together
MaxCalls == 3
\* fields added to one builder, and add_*_field calls after it was consumed
MaxFields == 2
\* documents in the index and in its writer together
MaxDocs == 2
\* documents in one index_docs call
MaxBatch == 2
\* width in bits of Token.position (usize, scaled down)
PosBits == 2

PosMod == 2 ^ PosBits

----------------------------------------------------------------------------
(* Characters.                                                             *)

\* char::len_utf8
len_utf8(ch) ==
    CASE ch \in {"a", "1", "apos", "grave", "-", " ", "/", ".", "_"} -> 1
      [] ch \in {"eacute", "modapos"} -> 2
      [] ch \in {"han", "rsquo", "emdash"} -> 3

\* char::is_alphanumeric: U+02BC MODIFIER LETTER APOSTROPHE is a letter (Lm)
is_alphanumeric(ch) == ch \in {"a", "1", "eacute", "han", "modapos"}

is_apostrophe_like(ch) == ch \in {"apos", "rsquo", "modapos", "grave"}

is_dash_like(ch) == ch \in {"-", "emdash"}

\* Word_Break property (UAX #29) of the characters above: ALetter, Numeric,
\* MidNumLet or Single_Quote (MB), ExtendNumLet (EX), anything else (XX).
word_break(ch) ==
    CASE ch \in {"a", "eacute", "modapos"} -> "AL"
      [] ch = "1" -> "NU"
      [] ch \in {"apos", "rsquo", "."} -> "MB"
      [] ch = "_" -> "EX"
      [] OTHER -> "XX"

----------------------------------------------------------------------------
(* Strings as sequences of characters, sliced by byte offset.              *)

RECURSIVE bytes_upto(_, _)
\* the bytes of the first n characters of s
bytes_upto(s, n) == IF n = 0 THEN 0 ELSE len_utf8(s[n]) + bytes_upto(s, n - 1)

\* str::len
byte_len(s) == bytes_upto(s, Len(s))

\* the byte index of the idx-th character (1-based) as char_indices gives it;
\* for idx = Len(s) + 1 it is s.len()
byte_index(s, idx) == bytes_upto(s, idx - 1)

is_char_boundary(s, b) == \E i \in 1..(Len(s) + 1) : byte_index(s, i) = b

\* whether &s[from..to] is a valid slice (it panics otherwise)
slice_ok(s, from, to) ==
    /\ from <= to
    /\ to <= byte_len(s)
    /\ is_char_boundary(s, from)
    /\ is_char_boundary(s, to)

\* the character (1-based) that starts at byte b, Len(s) + 1 for b = s.len()
char_at(s, b) == CHOOSE i \in 1..(Len(s) + 1) : byte_index(s, i) = b

\* &s[from..to], for a valid slice
slice(s, from, to) == SubSeq(s, char_at(s, from), char_at(s, to) - 1)

\* separator_is_apostrophe_run with any in place of all
separator_is_apostrophe_run_any(separator) ==
    separator # <<>> /\ \E i \in 1..Len(separator) : is_apostrophe_like(separator[i])

separator_is_apostrophe_run(separator) ==
    separator # <<>> /\ \A i \in 1..Len(separator) : is_apostrophe_like(separator[i])

\* separator_is_dash_run without !separator.is_empty()
separator_is_dash_run_allows_empty(separator) ==
    \A i \in 1..Len(separator) : is_dash_like(separator[i])

separator_is_dash_run(separator) ==
    separator # <<>> /\ \A i \in 1..Len(separator) : is_dash_like(separator[i])

----------------------------------------------------------------------------
(* The word segmenter: UnicodeSegmentation::unicode_word_indices.          *)

\* UAX #29: no word boundary between the i-th and the (i+1)-th character
no_break_after(s, i) ==
    LET c(k) == IF k < 1 \/ k > Len(s) THEN "none" ELSE word_break(s[k])
    IN  \/ c(i) \in {"AL", "NU"} /\ c(i + 1) \in {"AL", "NU"}       \* WB5, WB8-10
        \/ c(i) = "AL" /\ c(i + 1) = "MB" /\ c(i + 2) = "AL"         \* WB6
        \/ c(i - 1) = "AL" /\ c(i) = "MB" /\ c(i + 1) = "AL"         \* WB7
        \/ c(i - 1) = "NU" /\ c(i) = "MB" /\ c(i + 1) = "NU"         \* WB11
        \/ c(i) = "NU" /\ c(i + 1) = "MB" /\ c(i + 2) = "NU"         \* WB12
        \/ c(i) \in {"AL", "NU", "EX"} /\ c(i + 1) = "EX"            \* WB13a
        \/ c(i) = "EX" /\ c(i + 1) \in {"AL", "NU"}                  \* WB13b
        \/ i < Len(s) /\ s[i] = " " /\ s[i + 1] = " "                \* WB3d

has_alphanumeric(s) == \E i \in 1..Len(s) : is_alphanumeric(s[i])

RECURSIVE word_scan(_, _, _)
\* the segments of s from character `start` on, `i` being the scan position;
\* only the segments holding an alphanumeric character are words
word_scan(s, start, i) ==
    IF i > Len(s) THEN <<>>
    ELSE IF i < Len(s) /\ no_break_after(s, i) THEN word_scan(s, start, i + 1)
    ELSE LET word == SubSeq(s, start, i)
             rest == word_scan(s, i + 1, i + 1)
         IN  IF has_alphanumeric(word)
             THEN <<[offset |-> byte_index(s, start), word |-> word]>> \o rest
             ELSE rest

unicode_word_indices(s) == word_scan(s, 1, 1)

----------------------------------------------------------------------------
(* The intra-word splitter.                                                *)

PendingToken(t, from, to) == [text |-> t, offset_from |-> from, offset_to |-> to]

\* flush_pending_token with offset_to left relative to the word
flush_relative_end(st, word_offset) ==
    LET push == st.current_start # <<>> /\ st.current_text # <<>>
    IN  [tokens |-> IF push
                    THEN Append(st.tokens,
                                PendingToken(st.current_text,
                                             word_offset + st.current_start[1],
                                             st.current_end))
                    ELSE st.tokens,
         current_text |-> IF push THEN <<>> ELSE st.current_text,
         current_start |-> <<>>,
         current_end |-> 0]

\* Option<usize> is <<>> for None and <<n>> for Some(n)
flush_pending_token(st, word_offset) ==
    LET push == st.current_start # <<>> /\ st.current_text # <<>>
    IN  [tokens |-> IF push
                    THEN Append(st.tokens,
                                PendingToken(st.current_text,
                                             word_offset + st.current_start[1],
                                             word_offset + st.current_end))
                    ELSE st.tokens,
         current_text |-> IF push THEN <<>> ELSE st.current_text,
         current_start |-> <<>>,
         current_end |-> 0]

\* split_step eliding an apostrophe whenever a letter or digit precedes it
split_step_elides_at_end(st, word_offset, word, idx) ==
    LET ch == word[idx]
        byte_idx == byte_index(word, idx)
        next_byte_idx == byte_index(word, idx + 1)
        prev_is_alnum == idx > 1 /\ is_alphanumeric(word[idx - 1])
    IN  IF is_apostrophe_like(ch) /\ prev_is_alnum
        THEN [st EXCEPT !.current_end = next_byte_idx]
        ELSE IF is_alphanumeric(ch)
        THEN [st EXCEPT !.current_start = IF @ = <<>> THEN <<byte_idx>> ELSE @,
                        !.current_text = Append(@, ch),
                        !.current_end = next_byte_idx]
        ELSE flush_pending_token(st, word_offset)

\* split_step counting characters where the code counts bytes (enumerate in
\* place of char_indices)
split_step_counts_chars(st, word_offset, word, idx) ==
    LET ch == word[idx]
        byte_idx == idx - 1
        next_byte_idx == idx
        prev_is_alnum == idx > 1 /\ is_alphanumeric(word[idx - 1])
        next_is_alnum == idx + 1 <= Len(word) /\ is_alphanumeric(word[idx + 1])
    IN  IF is_apostrophe_like(ch) /\ prev_is_alnum /\ next_is_alnum
        THEN [st EXCEPT !.current_end = next_byte_idx]
        ELSE IF is_alphanumeric(ch)
        THEN [st EXCEPT !.current_start = IF @ = <<>> THEN <<byte_idx>> ELSE @,
                        !.current_text = Append(@, ch),
                        !.current_end = next_byte_idx]
        ELSE flush_pending_token(st, word_offset)

\* split_step taking every character for one byte long
split_step_one_byte_chars(st, word_offset, word, idx) ==
    LET ch == word[idx]
        byte_idx == byte_index(word, idx)
        next_byte_idx == byte_idx + 1
        prev_is_alnum == idx > 1 /\ is_alphanumeric(word[idx - 1])
        next_is_alnum == idx + 1 <= Len(word) /\ is_alphanumeric(word[idx + 1])
    IN  IF is_apostrophe_like(ch) /\ prev_is_alnum /\ next_is_alnum
        THEN [st EXCEPT !.current_end = next_byte_idx]
        ELSE IF is_alphanumeric(ch)
        THEN [st EXCEPT !.current_start = IF @ = <<>> THEN <<byte_idx>> ELSE @,
                        !.current_text = Append(@, ch),
                        !.current_end = next_byte_idx]
        ELSE flush_pending_token(st, word_offset)

\* split_step going on with the same token after a punctuation or symbol
split_step_skips_symbol(st, word_offset, word, idx) ==
    LET ch == word[idx]
        byte_idx == byte_index(word, idx)
        next_byte_idx == byte_index(word, idx + 1)
        prev_is_alnum == idx > 1 /\ is_alphanumeric(word[idx - 1])
        next_is_alnum == idx + 1 <= Len(word) /\ is_alphanumeric(word[idx + 1])
    IN  IF is_apostrophe_like(ch) /\ prev_is_alnum /\ next_is_alnum
        THEN [st EXCEPT !.current_end = next_byte_idx]
        ELSE IF is_alphanumeric(ch)
        THEN [st EXCEPT !.current_start = IF @ = <<>> THEN <<byte_idx>> ELSE @,
                        !.current_text = Append(@, ch),
                        !.current_end = next_byte_idx]
        ELSE st

\* one iteration of the for loop of split_word_tokens, on the idx-th character
split_step(st, word_offset, word, idx) ==
    LET ch == word[idx]
        byte_idx == byte_index(word, idx)
        next_byte_idx == byte_index(word, idx + 1)
        prev_is_alnum == idx > 1 /\ is_alphanumeric(word[idx - 1])
        next_is_alnum == idx + 1 <= Len(word) /\ is_alphanumeric(word[idx + 1])
    IN  IF is_apostrophe_like(ch) /\ prev_is_alnum /\ next_is_alnum
        THEN [st EXCEPT !.current_end = next_byte_idx]
        ELSE IF is_alphanumeric(ch)
        THEN [st EXCEPT !.current_start = IF @ = <<>> THEN <<byte_idx>> ELSE @,
                        !.current_text = Append(@, ch),
                        !.current_end = next_byte_idx]
        ELSE flush_pending_token(st, word_offset)

RECURSIVE split_loop(_, _, _, _)
split_loop(st, word_offset, word, idx) ==
    IF idx > Len(word) THEN st
    ELSE split_loop(split_step(st, word_offset, word, idx), word_offset, word, idx + 1)

split_word_tokens(word_offset, word) ==
    LET st0 == [tokens |-> <<>>, current_text |-> <<>>,
                current_start |-> <<>>, current_end |-> 0]
    IN  flush_pending_token(split_loop(st0, word_offset, word, 1), word_offset).tokens

----------------------------------------------------------------------------
(* The apostrophe merger and the dash-compound expander.                   *)

RECURSIVE split_all(_, _)
\* the tokens of the words from the i-th on, in the order the two for loops of
\* tokenize_text visit them
split_all(ws, i) ==
    IF i > Len(ws) THEN <<>>
    ELSE split_word_tokens(ws[i].offset, ws[i].word) \o split_all(ws, i + 1)

\* the slice taken by merge_step panics
merge_step_panics(merged, tk, s) ==
    /\ merged # <<>>
    /\ tk.offset_from >= merged[Len(merged)].offset_to
    /\ ~slice_ok(s, merged[Len(merged)].offset_to, tk.offset_from)

\* merge_step pushing the separator into the merged text as well
merge_step_keeps_separator(merged, tk, s) ==
    IF /\ merged # <<>>
       /\ tk.offset_from >= merged[Len(merged)].offset_to
       /\ ~merge_step_panics(merged, tk, s)
       /\ separator_is_apostrophe_run(
              slice(s, merged[Len(merged)].offset_to, tk.offset_from))
    THEN [merged EXCEPT ![Len(merged)] =
              PendingToken(@.text \o slice(s, @.offset_to, tk.offset_from) \o tk.text,
                           @.offset_from, tk.offset_to)]
    ELSE Append(merged, tk)

\* merge_step without last_token.offset_to = token.offset_to
merge_step_keeps_end(merged, tk, s) ==
    IF /\ merged # <<>>
       /\ tk.offset_from >= merged[Len(merged)].offset_to
       /\ ~merge_step_panics(merged, tk, s)
       /\ separator_is_apostrophe_run(
              slice(s, merged[Len(merged)].offset_to, tk.offset_from))
    THEN [merged EXCEPT ![Len(merged)] =
              PendingToken(@.text \o tk.text, @.offset_from, @.offset_to)]
    ELSE Append(merged, tk)

\* merge_step without last_token.text.push_str(&token.text)
merge_step_drops_text(merged, tk, s) ==
    IF /\ merged # <<>>
       /\ tk.offset_from >= merged[Len(merged)].offset_to
       /\ ~merge_step_panics(merged, tk, s)
       /\ separator_is_apostrophe_run(
              slice(s, merged[Len(merged)].offset_to, tk.offset_from))
    THEN [merged EXCEPT ![Len(merged)] =
              PendingToken(@.text, @.offset_from, tk.offset_to)]
    ELSE Append(merged, tk)

\* the body of the inner for loop of tokenize_text: merge tk into the last
\* merged token, or push it
merge_step(merged, tk, s) ==
    IF /\ merged # <<>>
       /\ tk.offset_from >= merged[Len(merged)].offset_to
       /\ ~merge_step_panics(merged, tk, s)
       /\ separator_is_apostrophe_run(
              slice(s, merged[Len(merged)].offset_to, tk.offset_from))
    THEN [merged EXCEPT ![Len(merged)] =
              PendingToken(@.text \o tk.text, @.offset_from, tk.offset_to)]
    ELSE Append(merged, tk)

RECURSIVE merge_loop(_, _, _, _)
\* the for loops of tokenize_text over the tokens raw[i..]; acc holds
\* merged_tokens and whether a slice has panicked
merge_loop(acc, raw, i, s) ==
    IF i > Len(raw) THEN acc
    ELSE merge_loop([merged |-> merge_step(acc.merged, raw[i], s),
                     panic |-> acc.panic \/ merge_step_panics(acc.merged, raw[i], s)],
                    raw, i + 1, s)

\* the separator test of the inner while loop of expand_dash_compounds
dash_bridge(tokens, run_end, s) ==
    /\ slice_ok(s, tokens[run_end].offset_to, tokens[run_end + 1].offset_from)
    /\ separator_is_dash_run(
           slice(s, tokens[run_end].offset_to, tokens[run_end + 1].offset_from))

\* the inner while loop stopping after one bridge: a compound per pair
run_loop_pairwise(r, tokens, s) ==
    IF r.run_end + 1 <= Len(tokens) /\ dash_bridge(tokens, r.run_end, s)
    THEN [run_end |-> r.run_end + 1,
          combined_text |-> r.combined_text \o tokens[r.run_end + 1].text,
          combined_end |-> tokens[r.run_end + 1].offset_to,
          has_dash_bridge |-> TRUE,
          expanded |-> Append(r.expanded, tokens[r.run_end + 1])]
    ELSE r

RECURSIVE run_loop(_, _, _)
\* the inner while loop: r holds run_end, combined_text, combined_end,
\* has_dash_bridge and expanded
run_loop(r, tokens, s) ==
    IF r.run_end + 1 <= Len(tokens) /\ dash_bridge(tokens, r.run_end, s)
    THEN run_loop([run_end |-> r.run_end + 1,
                   combined_text |-> r.combined_text \o tokens[r.run_end + 1].text,
                   combined_end |-> tokens[r.run_end + 1].offset_to,
                   has_dash_bridge |-> TRUE,
                   expanded |-> Append(r.expanded, tokens[r.run_end + 1])],
                  tokens, s)
    ELSE r

\* expand_step going on from run_end, not from run_end + 1, after a compound
expand_step_revisits(expanded, tokens, idx, s) ==
    LET r == run_loop([run_end |-> idx,
                       combined_text |-> tokens[idx].text,
                       combined_end |-> tokens[idx].offset_to,
                       has_dash_bridge |-> FALSE,
                       expanded |-> Append(expanded, tokens[idx])],
                      tokens, s)
    IN  IF r.has_dash_bridge
        THEN [expanded |-> Append(r.expanded,
                                  PendingToken(r.combined_text,
                                               tokens[idx].offset_from,
                                               r.combined_end)),
              idx |-> r.run_end]
        ELSE [expanded |-> r.expanded, idx |-> idx + 1]

\* expand_step emitting the compound in place of the tokens of its run
expand_step_compound_only(expanded, tokens, idx, s) ==
    LET r == run_loop([run_end |-> idx,
                       combined_text |-> tokens[idx].text,
                       combined_end |-> tokens[idx].offset_to,
                       has_dash_bridge |-> FALSE,
                       expanded |-> Append(expanded, tokens[idx])],
                      tokens, s)
    IN  IF r.has_dash_bridge
        THEN [expanded |-> Append(expanded,
                                  PendingToken(r.combined_text,
                                               tokens[idx].offset_from,
                                               r.combined_end)),
              idx |-> r.run_end + 1]
        ELSE [expanded |-> r.expanded, idx |-> idx + 1]

\* expand_step with has_dash_bridge starting as true: a compound after every
\* token, bridged or not
expand_step_always_compounds(expanded, tokens, idx, s) ==
    LET r == run_loop([run_end |-> idx,
                       combined_text |-> tokens[idx].text,
                       combined_end |-> tokens[idx].offset_to,
                       has_dash_bridge |-> TRUE,
                       expanded |-> Append(expanded, tokens[idx])],
                      tokens, s)
    IN  [expanded |-> Append(r.expanded,
                             PendingToken(r.combined_text,
                                          tokens[idx].offset_from,
                                          r.combined_end)),
         idx |-> r.run_end + 1]

\* one iteration of the outer while loop, from token idx: the tokens pushed
\* and the next idx
expand_step(expanded, tokens, idx, s) ==
    LET r == run_loop([run_end |-> idx,
                       combined_text |-> tokens[idx].text,
                       combined_end |-> tokens[idx].offset_to,
                       has_dash_bridge |-> FALSE,
                       expanded |-> Append(expanded, tokens[idx])],
                      tokens, s)
    IN  IF r.has_dash_bridge
        THEN [expanded |-> Append(r.expanded,
                                  PendingToken(r.combined_text,
                                               tokens[idx].offset_from,
                                               r.combined_end)),
              idx |-> r.run_end + 1]
        ELSE [expanded |-> r.expanded, idx |-> idx + 1]

RECURSIVE expand_loop(_, _, _, _)
expand_loop(expanded, tokens, idx, s) ==
    IF idx > Len(tokens) THEN expanded
    ELSE LET e == expand_step(expanded, tokens, idx, s)
         IN  expand_loop(e.expanded, tokens, e.idx, s)

expand_dash_compounds(tokens, s) ==
    IF tokens = <<>> THEN tokens ELSE expand_loop(<<>>, tokens, 1, s)

\* a separator slice of expand_dash_compounds panics: the loops look at every
\* adjacent pair until the first one that is no dash run
expand_panics(tokens, s) ==
    \E i \in 1..(Len(tokens) - 1) :
        ~slice_ok(s, tokens[i].offset_to, tokens[i + 1].offset_from)

\* tokenize_text expanding the dash compounds of the tokens of the words and
\* merging across apostrophes afterwards
tokenize_trace_expands_first(s) ==
    LET ws == unicode_word_indices(s)
        raw == split_all(ws, 1)
        m == merge_loop([merged |-> <<>>, panic |-> FALSE], raw, 1, s)
        e == IF expand_panics(raw, s) THEN <<>> ELSE expand_dash_compounds(raw, s)
        me == merge_loop([merged |-> <<>>, panic |-> FALSE], e, 1, s)
    IN  [words |-> ws,
         raw |-> raw,
         merged |-> m.merged,
         expanded |-> me.merged,
         panic |-> me.panic \/ expand_panics(raw, s)]

\* tokenize_text with its intermediate values: the words, the tokens of the
\* words, merged_tokens, the expanded list, and whether a slice panicked
tokenize_trace(s) ==
    LET ws == unicode_word_indices(s)
        raw == split_all(ws, 1)
        m == merge_loop([merged |-> <<>>, panic |-> FALSE], raw, 1, s)
        panic == m.panic \/ expand_panics(m.merged, s)
    IN  [words |-> ws,
         raw |-> raw,
         merged |-> m.merged,
         expanded |-> IF panic THEN <<>> ELSE expand_dash_compounds(m.merged, s),
         panic |-> panic]

tokenize_text(s) == tokenize_trace(s).expanded

----------------------------------------------------------------------------
(* The tokenizer and its token stream.                                     *)

\* tantivy's Token::default(): position is usize::MAX, so that the first
\* wrapping_add(1) gives 0
TokenDefault == [text |-> <<>>, offset_from |-> 0, offset_to |-> 0,
                 position |-> PosMod - 1]

\* advance() without self.token.text.clear()
advance_keeps_text(tok, next_token) ==
    [text |-> tok.text \o next_token.text,
     offset_from |-> next_token.offset_from,
     offset_to |-> next_token.offset_to,
     position |-> (tok.position + 1) % PosMod]

\* advance() with saturating_add in place of wrapping_add
advance_saturating(tok, next_token) ==
    [text |-> <<>> \o next_token.text,
     offset_from |-> next_token.offset_from,
     offset_to |-> next_token.offset_to,
     position |-> IF tok.position = PosMod - 1 THEN tok.position ELSE tok.position + 1]

\* advance() with position + 1 in place of wrapping_add(1)
advance_plain_add(tok, next_token) ==
    [text |-> <<>> \o next_token.text,
     offset_from |-> next_token.offset_from,
     offset_to |-> next_token.offset_to,
     position |-> tok.position + 1]

\* the assignments of advance() to *self.token
advance_token(tok, next_token) ==
    [text |-> <<>> \o next_token.text,
     offset_from |-> next_token.offset_from,
     offset_to |-> next_token.offset_to,
     position |-> (tok.position + 1) % PosMod]

Threads == 1..MaxThreads

\* a method of TantivyIndex was called with these documents (index_doc,
\* index_docs) or this id (delete_doc; 0 otherwise) and returned this; count
\* is what docs_count() gave when the method was called
Called(name, docs, id, result) ==
    [name |-> name, docs |-> docs, id |-> id, result |-> result,
     count |-> Len(searcher)]

\* TantivySchemaBuilder::new(): Some(Schema::builder()), no field yet
BuilderNew == <<<<>>>>

\* no new_with_schema call yet. pc is where a thread is in its call ("idle"
\* outside one, "opened" with the directory open, "built" with the schema);
\* schema is the local `schema`, <<>> without one; result is what the last
\* call returned ("none" before any and during one). History: late, the
\* builder was consumed already when the call began; reached, the call got to
\* take_and_build; takes, how often take_and_build returned a schema; calls,
\* the calls begun; late_adds, the add_*_field calls on a consumed builder.
NwsNone ==
    [pc |-> [t \in Threads |-> "idle"],
     schema |-> [t \in Threads |-> <<>>],
     result |-> [t \in Threads |-> "none"],
     late |-> [t \in Threads |-> FALSE],
     reached |-> [t \in Threads |-> FALSE],
     takes |-> 0,
     calls |-> 0,
     late_adds |-> 0]

Init ==
    /\ text = <<>>
    /\ has_stream = FALSE
    /\ token = TokenDefault
    /\ pending_tokens = <<>>
    /\ last_advance = "none"
    /\ streams = 0
    /\ trace = [words |-> <<>>, raw |-> <<>>, merged |-> <<>>, expanded |-> <<>>,
                panic |-> FALSE]
    /\ emitted = <<>>
    /\ prev_run = <<>>
    /\ last_read = <<>>
    /\ builder = BuilderNew
    /\ nws = NwsNone
    /\ writer = <<>>
    /\ segments = <<>>
    /\ searcher = <<>>
    /\ last_call = Called("new_with_schema", <<>>, 0, "Ok")

\* UnicodeTokenizer::token_stream(t): the token list is computed eagerly and
\* self.token is lent to the stream as it is
TokenStream(t) ==
    /\ text' = t
    /\ trace' = tokenize_trace(t)
    /\ pending_tokens' = trace'.expanded
    /\ has_stream' = ~trace'.panic
    /\ token' = token
    /\ last_advance' = "none"
    /\ streams' = streams + 1
    /\ emitted' = <<>>
    /\ prev_run' = IF has_stream /\ t = text /\ last_advance = "false"
                   THEN <<emitted>> ELSE <<>>
    /\ last_read' = <<>>
    /\ UNCHANGED libvars

\* advance() taking the next token from the back of the queue
Advance_pops_back ==
    /\ has_stream
    /\ IF pending_tokens # <<>>
       THEN /\ token' = advance_token(token, pending_tokens[Len(pending_tokens)])
            /\ pending_tokens' = SubSeq(pending_tokens, 1, Len(pending_tokens) - 1)
            /\ emitted' = Append(emitted, token')
            /\ last_advance' = "true"
       ELSE /\ last_advance' = "false"
            /\ UNCHANGED <<token, pending_tokens, emitted>>
    /\ last_read' = <<>>
    /\ UNCHANGED <<text, has_stream, streams, trace, prev_run>>
    /\ UNCHANGED libvars

\* advance() adding 1 to the position before it looks for a next token
Advance_counts_before_pop ==
    /\ has_stream
    /\ IF pending_tokens # <<>>
       THEN /\ token' = advance_token(token, Head(pending_tokens))
            /\ pending_tokens' = Tail(pending_tokens)
            /\ emitted' = Append(emitted, token')
            /\ last_advance' = "true"
       ELSE /\ token' = [token EXCEPT !.position = (@ + 1) % PosMod]
            /\ last_advance' = "false"
            /\ UNCHANGED <<pending_tokens, emitted>>
    /\ last_read' = <<>>
    /\ UNCHANGED <<text, has_stream, streams, trace, prev_run>>
    /\ UNCHANGED libvars

\* UnicodeTokenStream::advance()
Advance ==
    /\ has_stream
    /\ IF pending_tokens # <<>>
       THEN /\ token' = advance_token(token, Head(pending_tokens))
            /\ pending_tokens' = Tail(pending_tokens)
            /\ emitted' = Append(emitted, token')
            /\ last_advance' = "true"
       ELSE /\ last_advance' = "false"
            /\ UNCHANGED <<token, pending_tokens, emitted>>
    /\ last_read' = <<>>
    /\ UNCHANGED <<text, has_stream, streams, trace, prev_run>>
    /\ UNCHANGED libvars

\* UnicodeTokenStream::token(): the current token, read through &self
CurrentToken ==
    /\ has_stream
    /\ last_read' = <<token>>
    /\ UNCHANGED <<text, has_stream, token, pending_tokens, last_advance, streams,
                   trace, emitted, prev_run>>
    /\ UNCHANGED libvars

----------------------------------------------------------------------------
(* The schema builder (src/src/lib.rs). Every method body runs with the    *)
(* mutex of the builder held, so it is one step.                           *)

\* names of schema fields
FieldNames == {"id", "title", "body"}

\* add_text_field, add_u64_field, ... add_json_field: the field is added to
\* the builder when there is one, and nothing happens when it was consumed.
\* (The names given to one builder are distinct: tantivy's SchemaBuilder
\* does not take a name twice.)
AddField(name) ==
    /\ IF builder # <<>>
       THEN /\ Len(builder[1]) < MaxFields
            /\ \A i \in 1..Len(builder[1]) : builder[1][i] # name
            /\ builder' = <<Append(builder[1], name)>>
            /\ nws' = nws
       ELSE /\ nws.late_adds < MaxFields
            /\ builder' = builder
            /\ nws' = [nws EXCEPT !.late_adds = @ + 1]
    /\ UNCHANGED <<tokvars, writer, segments, searcher, last_call>>

\* new_with_schema, first part: MmapDirectory::open, with create_dir_all and
\* a second open when it fails; dir is how that ends
NwsOpenDirectory(t, dir) ==
    /\ nws.pc[t] = "idle"
    /\ nws.calls < MaxCalls
    /\ nws' = [nws EXCEPT !.calls = @ + 1,
                          !.late[t] = (builder = <<>>),
                          !.reached[t] = FALSE,
                          !.schema[t] = <<>>,
                          !.pc[t] = IF dir = "ok" THEN "opened" ELSE "idle",
                          !.result[t] = IF dir = "ok" THEN "none" ELSE dir]
    /\ UNCHANGED <<builder, tokvars, writer, segments, searcher, last_call>>

\* take_and_build handing out a schema and leaving the builder in place
NwsTakeAndBuild_keeps_builder(t) ==
    /\ nws.pc[t] = "opened"
    /\ IF builder # <<>>
       THEN /\ builder' = builder
            /\ nws' = [nws EXCEPT !.pc[t] = "built",
                                  !.schema[t] = <<builder[1]>>,
                                  !.reached[t] = TRUE,
                                  !.takes = @ + 1]
       ELSE /\ builder' = builder
            /\ nws' = [nws EXCEPT !.pc[t] = "idle",
                                  !.reached[t] = TRUE,
                                  !.result[t] = "SchemaBuilderError"]
    /\ UNCHANGED <<tokvars, writer, segments, searcher, last_call>>

\* new_with_schema, second part: schema_builder.take_and_build() and the
\* ok_or_else(SchemaBuilderError)? on its result
NwsTakeAndBuild(t) ==
    /\ nws.pc[t] = "opened"
    /\ IF builder # <<>>
       THEN /\ builder' = <<>>
            /\ nws' = [nws EXCEPT !.pc[t] = "built",
                                  !.schema[t] = <<builder[1]>>,
                                  !.reached[t] = TRUE,
                                  !.takes = @ + 1]
       ELSE /\ builder' = builder
            /\ nws' = [nws EXCEPT !.pc[t] = "idle",
                                  !.reached[t] = TRUE,
                                  !.result[t] = "SchemaBuilderError"]
    /\ UNCHANGED <<tokvars, writer, segments, searcher, last_call>>

\* new_with_schema, last part: Index::open_or_create, the tokenizer, the
\* writer and the reader; ok is whether tantivy makes them all
NwsCreateIndex(t, ok) ==
    /\ nws.pc[t] = "built"
    /\ nws' = [nws EXCEPT !.pc[t] = "idle",
                          !.schema[t] = IF ok THEN @ ELSE <<>>,
                          !.result[t] = IF ok THEN "Ok" ELSE "TantivyError"]
    /\ UNCHANGED <<builder, tokvars, writer, segments, searcher, last_call>>

\* threads sharing one builder
NextSchema ==
    \/ \E name \in FieldNames : AddField(name)
    \/ \E t \in Threads : \E dir \in {"ok", "IoError", "OpenDirectoryError"} :
           NwsOpenDirectory(t, dir)
    \/ \E t \in Threads : NwsTakeAndBuild(t)
    \/ \E t \in Threads : \E ok \in BOOLEAN : NwsCreateIndex(t, ok)

SpecSchema == Init /\ [][NextSchema]_vars

----------------------------------------------------------------------------
(* The index (src/src/lib.rs). A method that changes the index holds the   *)
(* mutex of the writer from its first step to its return, so it is one     *)
(* step. The IndexWriter, the Index and the IndexReader are tantivy's: an  *)
(* added or deleted document is an operation kept by the writer until      *)
(* commit applies the operations in order, and a searcher sees the commit  *)
(* that the reader loaded last.                                            *)

\* values of the field that identifies a document (a field of the schema)
DocIds == {1, 2}

\* the other fields of a document, each told by what add_field_value and
\* schema.get_field make of it: "valid" is a field of the schema with a value
\* that converts, "invalid" a field of the schema with a facet path or a JSON
\* text that does not parse, "absent" a name the schema does not have
FieldLists == {<<"valid">>, <<"absent">>, <<"absent", "valid">>, <<"valid", "invalid">>}

\* TantivyDocumentFields
Docs == [id : DocIds, fields : FieldLists]

\* Vec<TantivyDocumentFields>
Batches == UNION {[1..n -> Docs] : n \in 0..MaxBatch}

\* an operation of the IndexWriter: add_document(doc), delete_term(id),
\* delete_all_documents()
Op(op, doc, id) == [op |-> op, doc |-> doc, id |-> id]

RECURSIVE build_doc(_, _, _)
\* the for loop over doc.fields, from the i-th field on: the TantivyDocument
\* built, or the error of add_field_value
build_doc(tantivy_doc, fields, i) ==
    IF i > Len(fields) THEN [ok |-> TRUE, doc |-> tantivy_doc]
    ELSE IF fields[i] = "absent" THEN build_doc(tantivy_doc, fields, i + 1)
    ELSE IF fields[i] = "invalid" THEN [ok |-> FALSE, doc |-> tantivy_doc]
    ELSE build_doc([tantivy_doc EXCEPT !.fields = Append(@, fields[i])], fields, i + 1)

\* TantivyDocument::default() with the identifying field
NewDoc(doc) == [id |-> doc.id, fields |-> <<>>]

RECURSIVE index_docs_loop(_, _, _)
\* the for loop of index_docs over docs, from the i-th on: the writer and
\* what the method returns
index_docs_loop(w, docs, i) ==
    IF i > Len(docs) THEN [writer |-> w, result |-> "Ok"]
    ELSE LET b == build_doc(NewDoc(docs[i]), docs[i].fields, 1)
         IN  IF ~b.ok THEN [writer |-> w, result |-> "Err"]
             ELSE index_docs_loop(Append(w, Op("add", <<b.doc>>, 0)), docs, i + 1)

\* tantivy: what one operation makes of the documents before it
apply_op(docs, o) ==
    CASE o.op = "add" -> Append(docs, o.doc[1])
      [] o.op = "delete_term" -> SelectSeq(docs, LAMBDA d : d.id # o.id)
      [] o.op = "delete_all" -> <<>>

RECURSIVE writer_commit(_, _, _)
\* tantivy: IndexWriter::commit applies the operations from the i-th on
writer_commit(docs, ops, i) ==
    IF i > Len(ops) THEN docs
    ELSE writer_commit(apply_op(docs, ops[i]), ops, i + 1)

\* docs_count(): searcher.num_docs()
docs_count == Len(searcher)

\* doc_exists(id), and whether get_doc(id) and a term search find a document
doc_exists(id) == \E i \in 1..Len(searcher) : searcher[i].id = id

\* index_doc(doc)
IndexDoc(doc) ==
    /\ Len(segments) + Len(writer) < MaxDocs
    /\ LET b == build_doc(NewDoc(doc), doc.fields, 1)
       IN  /\ writer' = IF b.ok THEN Append(writer, Op("add", <<b.doc>>, 0)) ELSE writer
           /\ last_call' = Called("index_doc", <<doc>>, 0, IF b.ok THEN "Ok" ELSE "Err")
    /\ UNCHANGED <<segments, searcher, builder, nws, tokvars>>

\* index_docs adding the documents only when every one of them converts
IndexDocs_all_or_nothing(docs) ==
    /\ Len(segments) + Len(writer) + Len(docs) <= MaxDocs
    /\ LET r == index_docs_loop(writer, docs, 1)
       IN  /\ writer' = IF r.result = "Ok" THEN r.writer ELSE writer
           /\ last_call' = Called("index_docs", docs, 0, r.result)
    /\ UNCHANGED <<segments, searcher, builder, nws, tokvars>>

\* index_docs(docs)
IndexDocs(docs) ==
    /\ Len(segments) + Len(writer) + Len(docs) <= MaxDocs
    /\ LET r == index_docs_loop(writer, docs, 1)
       IN  /\ writer' = r.writer
           /\ last_call' = Called("index_docs", docs, 0, r.result)
    /\ UNCHANGED <<segments, searcher, builder, nws, tokvars>>

\* commit(): writer.commit() and reader.reload()
Commit ==
    /\ segments' = writer_commit(segments, writer, 1)
    /\ writer' = <<>>
    /\ searcher' = segments'
    /\ last_call' = Called("commit", <<>>, 0, "Ok")
    /\ UNCHANGED <<builder, nws, tokvars>>

\* delete_doc leaving the commit to a later call
DeleteDoc_no_commit(id, term_ok) ==
    /\ IF term_ok
       THEN /\ writer' = Append(writer, Op("delete_term", <<>>, id))
            /\ UNCHANGED <<segments, searcher>>
       ELSE UNCHANGED <<segments, writer, searcher>>
    /\ last_call' = Called("delete_doc", <<>>, id, IF term_ok THEN "Ok" ELSE "Err")
    /\ UNCHANGED <<builder, nws, tokvars>>

\* delete_doc(id): term_ok is whether term_from_document_field makes a term
\* of it (the field is in the schema and the value is of its type); then
\* writer.delete_term, writer.commit() and reader.reload()
DeleteDoc(id, term_ok) ==
    /\ IF term_ok
       THEN /\ segments' = writer_commit(segments,
                                         Append(writer, Op("delete_term", <<>>, id)), 1)
            /\ writer' = <<>>
            /\ searcher' = segments'
       ELSE UNCHANGED <<segments, writer, searcher>>
    /\ last_call' = Called("delete_doc", <<>>, id, IF term_ok THEN "Ok" ELSE "Err")
    /\ UNCHANGED <<builder, nws, tokvars>>

\* clear_index(): writer.delete_all_documents(), writer.commit() and
\* reader.reload()
ClearIndex ==
    /\ segments' = writer_commit(segments,
                                 Append(writer, Op("delete_all", <<>>, 0)), 1)
    /\ writer' = <<>>
    /\ searcher' = segments'
    /\ last_call' = Called("clear_index", <<>>, 0, "Ok")
    /\ UNCHANGED <<builder, nws, tokvars>>

NextIndex ==
    \/ \E doc \in Docs : IndexDoc(doc)
    \/ \E docs \in Batches : IndexDocs(docs)
    \/ Commit
    \/ \E id \in DocIds : \E term_ok \in BOOLEAN : DeleteDoc(id, term_ok)
    \/ ClearIndex

SpecIndex == Init /\ [][NextIndex]_vars

----------------------------------------------------------------------------
(* Input texts and specifications.                                         *)

\* every text of at most n characters over an alphabet
TextsOver(alphabet, n) == UNION {[1..k -> alphabet] : k \in 0..n}

\* one tokenizer reused for several texts
ReuseTexts == TextsOver({"a", "-", " "}, MaxReuseLen)

\* one stream of a fresh tokenizer: a letter, an ideograph (three bytes, a
\* word of its own), an apostrophe, the apostrophe that is a letter, a dash
\* and a full stop (no word boundary between letters, and no part of a token)
AllTexts == TextsOver({"a", "han", "apos", "modapos", "-", "."}, MaxLen)

\* words of one byte and of three, a dash of three bytes and a space
DashTexts == TextsOver({"a", "han", "emdash", " "}, MaxDashLen)

\* one stream of a fresh tokenizer, apostrophes between and inside words
AposTexts == TextsOver({"a", "apos", "grave", "modapos", "-", " "}, MaxAposLen)

Next ==
    \/ streams < MaxStreams /\ \E t \in ReuseTexts : TokenStream(t)
    \/ Advance

Spec == Init /\ [][Next]_vars

NextText ==
    \/ streams = 0 /\ \E t \in AllTexts : TokenStream(t)
    \/ Advance

SpecText == Init /\ [][NextText]_vars

\* the token list of one text, as token_stream computes it
NextDash == streams = 0 /\ \E t \in DashTexts : TokenStream(t)

SpecDash == Init /\ [][NextDash]_vars

NextApos == streams = 0 /\ \E t \in AposTexts : TokenStream(t)

SpecApos == Init /\ [][NextApos]_vars

\* adjacent ideographs (words with nothing between them), apostrophes, dashes
\* and spaces between words
SepTexts == TextsOver({"a", "han", "apos", "-", " "}, MaxSepLen)

NextSep == streams = 0 /\ \E t \in SepTexts : TokenStream(t)

SpecSep == Init /\ [][NextSep]_vars

\* words with a full stop or a low line inside them (no word boundary there),
\* apostrophes, and a solidus between words
WordTexts == TextsOver({"a", "apos", ".", "_", "/"}, MaxWordLen)

NextWord == streams = 0 /\ \E t \in WordTexts : TokenStream(t)

SpecWord == Init /\ [][NextWord]_vars

\* one stream whose current token is read between the advances: letters of
\* one byte and of two, an ideograph of three, and a dash
ReadTexts == TextsOver({"a", "eacute", "han", "-"}, MaxReadLen)

NextRead ==
    \/ streams = 0 /\ \E t \in ReadTexts : TokenStream(t)
    \/ Advance
    \/ CurrentToken

SpecRead == Init /\ [][NextRead]_vars

----------------------------------------------------------------------------
(* Claims about the token stream.                                          *)

RECURSIVE drain(_, _)
\* the Token values a stream emits from pending, tok being the token lent
drain(tok, pending) ==
    IF pending = <<>> THEN <<>>
    ELSE LET t2 == advance_token(tok, Head(pending))
         IN  <<t2>> \o drain(t2, Tail(pending))

\* what a freshly constructed tokenizer emits for text t
FreshRun(t) == drain(TokenDefault, tokenize_text(t))

\* the position of the i-th token of a run, counted from the run's first
RelPos(run, i) == (run[i].position - run[1].position + PosMod) % PosMod

\* C1: whatever the tokenizer tokenized before, the tokens a stream emits
\* (text, offsets, position counted from the stream's first token) are those
\* a freshly constructed tokenizer emits for the same text.
C1_StreamIndependentOfHistory ==
    LET fresh == FreshRun(text)
    IN  /\ Len(emitted) <= Len(fresh)
        /\ \A i \in 1..Len(emitted) :
               /\ emitted[i].text = fresh[i].text
               /\ emitted[i].offset_from = fresh[i].offset_from
               /\ emitted[i].offset_to = fresh[i].offset_to
               /\ RelPos(emitted, i) = RelPos(fresh, i)
        /\ (last_advance = "false" => Len(emitted) = Len(fresh))

\* a second stream, drained, whose tokens did not start at position 0 and
\* whose tokenizer still held another token's text when it began
C1_Witness ==
    /\ streams = 2
    /\ last_advance = "false"
    /\ Len(emitted) = 3
    /\ emitted[1].position # 0

\* C2: within one stream every emitted position is the one before plus 1
\* (mod 2^PosBits), compound tokens included, and the first token of a fresh
\* tokenizer's first stream has position 0.
C2_PositionsStepByOne ==
    /\ \A i \in 1..(Len(emitted) - 1) :
           emitted[i + 1].position = (emitted[i].position + 1) % PosMod
    /\ (streams = 1 /\ emitted # <<>> => emitted[1].position = 0)
    /\ (emitted # <<>> => token = emitted[Len(emitted)])

\* a compound token emitted third by a reused tokenizer, right after its two
\* sub-tokens, the position having wrapped inside the stream
C2_Witness ==
    /\ streams = 2
    /\ Len(emitted) = 3
    /\ emitted[3].offset_from = emitted[1].offset_from
    /\ emitted[3].offset_to = emitted[2].offset_to
    /\ emitted[2].position = 0

\* C4 (as claimed): a text tokenized twice gives the same tokens in every
\* field, position included. The tokenizer is the same instance both times.
C4_SameTextSameTokens ==
    (prev_run # <<>> /\ last_advance = "false") => emitted = prev_run[1]

----------------------------------------------------------------------------
(* Claims about the tokens of one text.                                    *)

\* C3: every token, emitted or still pending, has
\* 0 <= offset_from <= offset_to <= byte length of the text.
C3_OffsetsInRange ==
    \A tk \in {emitted[i] : i \in 1..Len(emitted)}
              \cup {pending_tokens[i] : i \in 1..Len(pending_tokens)} :
        /\ 0 <= tk.offset_from
        /\ tk.offset_from <= tk.offset_to
        /\ tk.offset_to <= byte_len(text)

\* a drained stream of a text with a multi-byte character that emitted an
\* apostrophe-merged token and a dash compound built on it
C3_Witness ==
    /\ last_advance = "false"
    /\ byte_len(text) > Len(text)
    /\ Len(merged_tokens) < Len(raw_tokens)
    /\ Len(merged_tokens) < Len(all_tokens)
    /\ emitted # <<>>
    /\ emitted[1].text # raw_tokens[1].text
    /\ emitted[Len(emitted)].offset_from = emitted[1].offset_from

----------------------------------------------------------------------------
(* Claims about the dash-compound expander.                                *)

\* the characters of text between two byte offsets
Between(from, to) ==
    LET idxs == {i \in 1..Len(text) :
                     from <= byte_index(text, i) /\ byte_index(text, i + 1) <= to}
    IN  [i \in idxs |-> text[i]]

\* tokens i and i+1 are separated only by a non-empty run of dash-like characters
DashBridged(tokens, i) ==
    LET sep == Between(tokens[i].offset_to, tokens[i + 1].offset_from)
    IN  /\ tokens[i].offset_to < tokens[i + 1].offset_from
        /\ \A k \in DOMAIN sep : is_dash_like(sep[k])

\* token i is the first of a maximal dash run of two tokens or more
RunFirst(tokens, i) ==
    /\ i < Len(tokens)
    /\ DashBridged(tokens, i)
    /\ (i = 1 \/ ~DashBridged(tokens, i - 1))

\* token i is the last of a maximal dash run of two tokens or more
RunLast(tokens, i) ==
    /\ i > 1
    /\ DashBridged(tokens, i - 1)
    /\ (i = Len(tokens) \/ ~DashBridged(tokens, i))

\* the last token of the maximal run that token i is in
RunLastOf(tokens, i) ==
    CHOOSE e \in i..Len(tokens) :
        /\ \A k \in i..(e - 1) : DashBridged(tokens, k)
        /\ (e = Len(tokens) \/ ~DashBridged(tokens, e))

\* the maximal dash runs of two tokens or more, as <<first, last>>
Runs(tokens) ==
    {<<i, RunLastOf(tokens, i)>> : i \in {j \in 1..Len(tokens) : RunFirst(tokens, j)}}

\* where token i of the input stands in the output: one slot later for every
\* run that ended before it
OutIdx(tokens, i) == i + Cardinality({j \in 1..(i - 1) : RunLast(tokens, j)})

RECURSIVE ConcatTexts(_, _, _)
ConcatTexts(tokens, i, e) ==
    IF i > e THEN <<>> ELSE tokens[i].text \o ConcatTexts(tokens, i + 1, e)

\* C5: one compound per maximal run, not per pair: the output has one token
\* more than the input for every maximal run of two tokens or more, and the
\* output tokens lying inside the span of a run of N tokens are N + 1.
C5_OneCompoundPerMaximalRun ==
    /\ Len(all_tokens) = Len(merged_tokens) + Cardinality(Runs(merged_tokens))
    /\ \A run \in Runs(merged_tokens) :
           Cardinality({k \in 1..Len(all_tokens) :
                            /\ merged_tokens[run[1]].offset_from <= all_tokens[k].offset_from
                            /\ all_tokens[k].offset_to <= merged_tokens[run[2]].offset_to})
               = (run[2] - run[1] + 1) + 1

\* two maximal runs in one text, next to each other
C5_Witness ==
    /\ has_stream
    /\ Runs(merged_tokens) = {<<1, 2>>, <<3, 4>>}
    /\ Len(all_tokens) = 6

\* C6: the compound of a run is the concatenation of the run's texts, spans
\* from the first sub-token's start to the last one's end, and stands right
\* after the last sub-token, before the token that follows the run.
C6_CompoundTextSpanAndPlace ==
    \A run \in Runs(merged_tokens) :
        LET at == OutIdx(merged_tokens, run[2]) + 1
        IN  /\ at <= Len(all_tokens)
            /\ all_tokens[at - 1] = merged_tokens[run[2]]
            /\ all_tokens[at] =
                   PendingToken(ConcatTexts(merged_tokens, run[1], run[2]),
                                merged_tokens[run[1]].offset_from,
                                merged_tokens[run[2]].offset_to)
            /\ (run[2] < Len(merged_tokens) =>
                    /\ at + 1 <= Len(all_tokens)
                    /\ all_tokens[at + 1] = merged_tokens[run[2] + 1])

\* a run of three tokens with a token after it
C6_Witness ==
    /\ has_stream
    /\ Runs(merged_tokens) = {<<1, 3>>}
    /\ Len(all_tokens) = 5
    /\ Len(all_tokens[4].text) = 3
    /\ all_tokens[5] = merged_tokens[4]

\* C7: the expander leaves its input in place: the output without its
\* compounds is the input, token by token, and nothing else is added (an
\* input without dash runs is returned as it is).
C7_InputTokensKept ==
    /\ \A i \in 1..Len(merged_tokens) :
           /\ OutIdx(merged_tokens, i) <= Len(all_tokens)
           /\ all_tokens[OutIdx(merged_tokens, i)] = merged_tokens[i]
    /\ Cardinality((1..Len(all_tokens))
                   \ {OutIdx(merged_tokens, i) : i \in 1..Len(merged_tokens)})
           = Cardinality(Runs(merged_tokens))
    /\ (Runs(merged_tokens) = {} => all_tokens = merged_tokens)

\* a token in no run before a run and a token in no run after it
C7_Witness ==
    /\ has_stream
    /\ Len(merged_tokens) = 4
    /\ Runs(merged_tokens) = {<<2, 3>>}
    /\ Len(all_tokens) = 5

----------------------------------------------------------------------------
(* Claims about apostrophes.                                               *)

\* the i-th character of text is an apostrophe-like character inside a word
\* with a letter or digit right before it and right after it
Elided(i) ==
    /\ is_apostrophe_like(text[i])
    /\ \E k \in 1..Len(words) :
           LET first == char_at(text, words[k].offset)
               last == first + Len(words[k].word) - 1
           IN  first < i /\ i < last
    /\ is_alphanumeric(text[i - 1])
    /\ is_alphanumeric(text[i + 1])

RECURSIVE KeptFrom(_, _)
\* the characters of text from the i-th up to byte offset `to`, the elided
\* apostrophes left out
KeptFrom(i, to) ==
    IF i > Len(text) \/ byte_index(text, i) >= to THEN <<>>
    ELSE (IF Elided(i) THEN <<>> ELSE <<text[i]>>) \o KeptFrom(i + 1, to)

RECURSIVE ElidedBytesFrom(_, _)
\* the bytes of the elided apostrophes from the i-th character up to `to`
ElidedBytesFrom(i, to) ==
    IF i > Len(text) \/ byte_index(text, i) >= to THEN 0
    ELSE (IF Elided(i) THEN len_utf8(text[i]) ELSE 0) + ElidedBytesFrom(i + 1, to)

\* C8: an apostrophe-like character between two letters or digits of a word
\* splits nothing and is left out of the text: it lies inside the span of one
\* token of split_word_tokens, and every such token's text is its span
\* without the elided characters, so that the span is longer than the text by
\* their bytes.
C8_ApostropheInsideWordElided ==
    /\ \A i \in 1..Len(text) :
           Elided(i) =>
               \E j \in 1..Len(raw_tokens) :
                   /\ raw_tokens[j].offset_from < byte_index(text, i)
                   /\ byte_index(text, i + 1) < raw_tokens[j].offset_to
    /\ \A j \in 1..Len(raw_tokens) :
           LET tk == raw_tokens[j]
               first == char_at(text, tk.offset_from)
           IN  /\ tk.text = KeptFrom(first, tk.offset_to)
               /\ tk.offset_to - tk.offset_from
                      = byte_len(tk.text) + ElidedBytesFrom(first, tk.offset_to)

\* a word of two letters around two elided apostrophes, one of them of two
\* bytes: one token, its span three bytes longer than its text
C8_Witness ==
    /\ has_stream
    /\ Len(words) = 1
    /\ Len(raw_tokens) = 1
    /\ \E i \in 1..Len(text) : Elided(i) /\ text[i] = "apos"
    /\ \E i \in 1..Len(text) : Elided(i) /\ text[i] = "modapos"
    /\ raw_tokens[1].offset_to - raw_tokens[1].offset_from
           = byte_len(raw_tokens[1].text) + 3

\* tokens i and i+1 are separated only by a non-empty run of apostrophe-like
\* characters
AposBridged(tokens, i) ==
    LET sep == Between(tokens[i].offset_to, tokens[i + 1].offset_from)
    IN  /\ tokens[i].offset_to < tokens[i + 1].offset_from
        /\ \A k \in DOMAIN sep : is_apostrophe_like(sep[k])

\* the last token of the maximal apostrophe chain that token i is in
ChainLastOf(tokens, i) ==
    CHOOSE e \in i..Len(tokens) :
        /\ \A k \in i..(e - 1) : AposBridged(tokens, k)
        /\ (e = Len(tokens) \/ ~AposBridged(tokens, e))

\* the maximal apostrophe chains, as <<first, last>>; a token bridged to no
\* neighbour is a chain of its own
Chains(tokens) ==
    {<<i, ChainLastOf(tokens, i)>> :
         i \in {j \in 1..Len(tokens) : j = 1 \/ ~AposBridged(tokens, j - 1)}}

\* where the chain of token i stands in merged_tokens
MergedIdx(tokens, i) == i - Cardinality({j \in 1..(i - 1) : AposBridged(tokens, j)})

\* C9: two consecutive tokens with nothing but apostrophe-like characters
\* between them end up in one merged token; when the two are the whole chain
\* that token is the first text followed by the second, from the first one's
\* start to the second one's end. Nothing else is merged.
C9_ApostropheRunMergesPair ==
    /\ Len(merged_tokens)
           = Len(raw_tokens)
             - Cardinality({j \in 1..(Len(raw_tokens) - 1) : AposBridged(raw_tokens, j)})
    /\ \A i \in 1..(Len(raw_tokens) - 1) :
           AposBridged(raw_tokens, i) =>
               LET m == merged_tokens[MergedIdx(raw_tokens, i)]
               IN  /\ m.offset_from <= raw_tokens[i].offset_from
                   /\ raw_tokens[i + 1].offset_to <= m.offset_to
                   /\ (<<i, i + 1>> \in Chains(raw_tokens) =>
                           m = PendingToken(raw_tokens[i].text \o raw_tokens[i + 1].text,
                                            raw_tokens[i].offset_from,
                                            raw_tokens[i + 1].offset_to))

\* two words with two apostrophe-like characters between them, merged
C9_Witness ==
    /\ has_stream
    /\ Len(words) = 2
    /\ Len(raw_tokens) = 2
    /\ AposBridged(raw_tokens, 1)
    /\ raw_tokens[2].offset_from - raw_tokens[1].offset_to = 2
    /\ Len(merged_tokens) = 1
    /\ merged_tokens[1].text = raw_tokens[1].text \o raw_tokens[2].text

\* C10: merging chains: three tokens or more, each bridged to the next by
\* apostrophe-like characters only, become one token, the concatenation of
\* all their texts from the first one's start to the last one's end.
C10_ApostropheMergeChains ==
    \A ch \in Chains(raw_tokens) :
        ch[2] - ch[1] >= 2 =>
            /\ MergedIdx(raw_tokens, ch[1]) <= Len(merged_tokens)
            /\ merged_tokens[MergedIdx(raw_tokens, ch[1])]
                   = PendingToken(ConcatTexts(raw_tokens, ch[1], ch[2]),
                                  raw_tokens[ch[1]].offset_from,
                                  raw_tokens[ch[2]].offset_to)

\* three words chained by apostrophes into one token
C10_Witness ==
    /\ has_stream
    /\ Len(raw_tokens) = 3
    /\ Chains(raw_tokens) = {<<1, 3>>}
    /\ Len(merged_tokens) = 1
    /\ Len(merged_tokens[1].text) = 3

----------------------------------------------------------------------------
(* Claims about the order of the two passes and about separators.          *)

\* token tk is the apostrophe chains c1..c2 of raw_tokens taken whole
WholeChains(tk, c1, c2) ==
    /\ c1[1] <= c2[2]
    /\ tk = PendingToken(ConcatTexts(raw_tokens, c1[1], c2[2]),
                         raw_tokens[c1[1]].offset_from,
                         raw_tokens[c2[2]].offset_to)

\* C11: apostrophes are merged before dash compounds are made: every token of
\* the result, compound or not, is made of whole apostrophe chains (it never
\* starts or ends at a pre-merge piece), and two merged tokens bridged by
\* dashes are both in the result, followed by a compound that spans both
\* with their merged texts.
C11_MergeBeforeDashCompound ==
    /\ \A k \in 1..Len(all_tokens) :
           \E c1 \in Chains(raw_tokens) : \E c2 \in Chains(raw_tokens) :
               WholeChains(all_tokens[k], c1, c2)
    /\ \A i \in 1..(Len(merged_tokens) - 1) :
           DashBridged(merged_tokens, i) =>
               \E k \in 3..Len(all_tokens) : \E j \in 1..(k - 2) :
                   /\ all_tokens[j] = merged_tokens[i]
                   /\ all_tokens[j + 1] = merged_tokens[i + 1]
                   /\ all_tokens[k].offset_from <= merged_tokens[i].offset_from
                   /\ merged_tokens[i + 1].offset_to <= all_tokens[k].offset_to
                   /\ Len(all_tokens[k].text)
                          >= Len(merged_tokens[i].text) + Len(merged_tokens[i + 1].text)

\* two words merged across an apostrophe-like character, the merged token
\* bridged by a dash to a third word: the merged token, the third word and
\* the compound of the two
C11_Witness ==
    /\ has_stream
    /\ Len(raw_tokens) = 3
    /\ AposBridged(raw_tokens, 1)
    /\ Len(merged_tokens) = 2
    /\ DashBridged(merged_tokens, 1)
    /\ Len(all_tokens) = 3
    /\ all_tokens[1].text = raw_tokens[1].text \o raw_tokens[2].text
    /\ all_tokens[3].text = all_tokens[1].text \o raw_tokens[3].text
    /\ all_tokens[3].offset_from = raw_tokens[1].offset_from

\* some token of the list spans tokens a and b both
Covered(tokens, a, b) ==
    \E k \in 1..Len(tokens) :
        tokens[k].offset_from <= a.offset_from /\ b.offset_to <= tokens[k].offset_to

\* C12: tokens are joined only across a non-empty separator of one class. Two
\* consecutive tokens whose separator is not a non-empty run of apostrophe-like
\* characters are not merged; two consecutive tokens whose separator is not a
\* non-empty run of dash-like characters get no compound; so with a separator
\* that is empty, holds another character or mixes the two classes, no token
\* of the result spans both.
C12_JoinOnlyAcrossOneClass ==
    /\ \A i \in 1..(Len(raw_tokens) - 1) :
           ~AposBridged(raw_tokens, i) =>
               ~Covered(merged_tokens, raw_tokens[i], raw_tokens[i + 1])
    /\ \A i \in 1..(Len(merged_tokens) - 1) :
           ~DashBridged(merged_tokens, i) =>
               ~Covered(all_tokens, merged_tokens[i], merged_tokens[i + 1])
    /\ \A i \in 1..(Len(raw_tokens) - 1) :
           ~AposBridged(raw_tokens, i) /\ ~DashBridged(raw_tokens, i) =>
               ~Covered(all_tokens, raw_tokens[i], raw_tokens[i + 1])

\* two ideographs with nothing between them, then a dash and an apostrophe
\* before a third word: three tokens, none joined
C12_Witness ==
    /\ has_stream
    /\ Len(raw_tokens) = 3
    /\ raw_tokens[1].offset_to = raw_tokens[2].offset_from
    /\ LET sep == Between(raw_tokens[2].offset_to, raw_tokens[3].offset_from)
       IN  /\ \E k \in DOMAIN sep : is_dash_like(sep[k])
           /\ \E k \in DOMAIN sep : is_apostrophe_like(sep[k])
    /\ all_tokens = raw_tokens

----------------------------------------------------------------------------
(* Claims about split_word_tokens.                                         *)

\* the first and the last character of the k-th word, as indices into text
WordFirst(k) == char_at(text, words[k].offset)
WordLast(k) == WordFirst(k) + Len(words[k].word) - 1

\* the word the i-th character of text is in, 0 when it is in none
WordOf(i) ==
    IF \E k \in 1..Len(words) : WordFirst(k) <= i /\ i <= WordLast(k)
    THEN CHOOSE k \in 1..Len(words) : WordFirst(k) <= i /\ i <= WordLast(k)
    ELSE 0

\* the i-th character of text is part of a token: a character of a word that
\* is alphanumeric or an elided apostrophe
TokenChar(i) ==
    /\ i \in 1..Len(text)
    /\ WordOf(i) # 0
    /\ (is_alphanumeric(text[i]) \/ Elided(i))

\* a maximal run of token characters of one word starts at the i-th character
TokenStart(i) ==
    /\ TokenChar(i)
    /\ (TokenChar(i - 1) => WordOf(i - 1) # WordOf(i))

\* the last character of the maximal run that starts at the i-th character
TokenEnd(i) ==
    CHOOSE e \in i..WordLast(WordOf(i)) :
        /\ \A k \in i..e : TokenChar(k)
        /\ (e = WordLast(WordOf(i)) \/ ~TokenChar(e + 1))

\* the start of the j-th maximal run of text
NthStart(j) ==
    CHOOSE i \in 1..Len(text) :
        TokenStart(i) /\ Cardinality({k \in 1..i : TokenStart(k)}) = j

\* C13: split_word_tokens cuts every word into its maximal runs of
\* alphanumeric characters and elided apostrophes, in order: every other
\* character ends the token before it, starts a new one after it and is in
\* no token text, a run that is empty gives no token, and the end of the
\* word ends the last token.
C13_WordCutIntoMaximalRuns ==
    /\ Len(raw_tokens) = Cardinality({i \in 1..Len(text) : TokenStart(i)})
    /\ \A j \in 1..Len(raw_tokens) :
           LET i == NthStart(j)
               to == byte_index(text, TokenEnd(i) + 1)
           IN  raw_tokens[j] = PendingToken(KeptFrom(i, to), byte_index(text, i), to)
    /\ \A j \in 1..Len(raw_tokens) : \A k \in 1..Len(raw_tokens[j].text) :
           is_alphanumeric(raw_tokens[j].text[k])

\* a word cut in two at a full stop inside it, a solidus, and a second word:
\* three tokens and no compound
C13_Witness ==
    /\ has_stream
    /\ Len(words) = 2
    /\ Len(words[1].word) = 3
    /\ words[1].word[2] = "."
    /\ text[4] = "/"
    /\ Len(raw_tokens) = 3
    /\ raw_tokens[2].offset_from = 2
    /\ all_tokens = raw_tokens

\* C14 (as claimed): an apostrophe-like character that is not elided, whichever
\* member of the set it is, ends the token before it and is in no token text:
\* no token of split_word_tokens spans it, and no token text holds an
\* apostrophe-like character.
C14_EdgeApostropheSplits ==
    /\ \A i \in 1..Len(text) :
           is_apostrophe_like(text[i]) /\ ~Elided(i) =>
               \A j \in 1..Len(raw_tokens) :
                   \/ raw_tokens[j].offset_to <= byte_index(text, i)
                   \/ byte_index(text, i + 1) <= raw_tokens[j].offset_from
    /\ \A j \in 1..Len(raw_tokens) : \A k \in 1..Len(raw_tokens[j].text) :
           ~is_apostrophe_like(raw_tokens[j].text[k])

----------------------------------------------------------------------------
(* Claims about failure and about the stream's end.                        *)

\* C15: tokenizing never panics: token_stream returns a stream, and every
\* separator slice text[a.offset_to .. b.offset_from], a and b consecutive
\* tokens of the words (tokenize_text) or of merged_tokens
\* (expand_dash_compounds), has a.offset_to <= b.offset_from <= byte length of
\* the text, both ends on character boundaries.
C15_SeparatorSlicesValid ==
    streams > 0 =>
        /\ ~panicked
        /\ has_stream
        /\ \A i \in 1..(Len(raw_tokens) - 1) :
               /\ raw_tokens[i].offset_to <= raw_tokens[i + 1].offset_from
               /\ raw_tokens[i + 1].offset_from <= byte_len(text)
               /\ is_char_boundary(text, raw_tokens[i].offset_to)
               /\ is_char_boundary(text, raw_tokens[i + 1].offset_from)
        /\ \A i \in 1..(Len(merged_tokens) - 1) :
               /\ merged_tokens[i].offset_to <= merged_tokens[i + 1].offset_from
               /\ merged_tokens[i + 1].offset_from <= byte_len(text)
               /\ is_char_boundary(text, merged_tokens[i].offset_to)
               /\ is_char_boundary(text, merged_tokens[i + 1].offset_from)

\* words of three bytes and of one, with a three-byte dash and with nothing
\* between them: a slice of three bytes and an empty slice, inside the text
C15_Witness ==
    /\ has_stream
    /\ Len(merged_tokens) = 3
    /\ merged_tokens[1].text = <<"han">>
    /\ merged_tokens[2].offset_from = merged_tokens[1].offset_to + 3
    /\ merged_tokens[3].offset_from = merged_tokens[2].offset_to
    /\ merged_tokens[3].offset_from > 6
    /\ Len(all_tokens) = 4

\* the text has no character that can form a token: every character is
\* apostrophe-like, dash-like, or not alphanumeric
Pathological(t) ==
    \A i \in 1..Len(t) :
        is_apostrophe_like(t[i]) \/ is_dash_like(t[i]) \/ ~is_alphanumeric(t[i])

\* C16 (as claimed): the empty text, a text without word-forming characters
\* and a text of apostrophe-like and dash-like characters only give no token:
\* the computed list is empty and the first advance() returns false.
C16_PathologicalGivesNoToken ==
    streams > 0 /\ Pathological(text) =>
        /\ has_stream
        /\ all_tokens = <<>>
        /\ emitted = <<>>
        /\ last_advance # "true"

\* C17: exhaustion is terminal: when advance() has returned false the current
\* token is still the last one emitted and nothing is pending, and every
\* later advance() on the stream returns false again and leaves the token
\* (text, offsets, position) and the stream as they are.
C17_ExhaustionTerminal ==
    /\ [](last_advance = "false" =>
              /\ pending_tokens = <<>>
              /\ (emitted # <<>> => token = emitted[Len(emitted)]))
    /\ [][(last_advance = "false" /\ streams' = streams) =>
              /\ last_advance' = "false"
              /\ token' = token
              /\ pending_tokens' = pending_tokens
              /\ emitted' = emitted]_vars

\* the first stream of a tokenizer, exhausted after three tokens
C17_Witness ==
    /\ streams = 1
    /\ last_advance = "false"
    /\ pending_tokens = <<>>
    /\ Len(emitted) = 3
    /\ token = emitted[3]

\* token tok has the text and the offsets of the computed token tk
SameToken(tok, tk) ==
    /\ tok.text = tk.text
    /\ tok.offset_from = tk.offset_from
    /\ tok.offset_to = tk.offset_to

\* C18: the stream is a FIFO cursor over the list computed by token_stream:
\* the k-th advance() that returns true makes the current token the k-th
\* computed token, advance() returns false only when all N have been
\* emitted, and token() returns the current token and consumes nothing
\* however often it is called.
C18_FifoCursor ==
    /\ Len(emitted) + Len(pending_tokens) = Len(all_tokens)
    /\ pending_tokens = SubSeq(all_tokens, Len(emitted) + 1, Len(all_tokens))
    /\ \A k \in 1..Len(emitted) : SameToken(emitted[k], all_tokens[k])
    /\ (last_advance = "true" =>
            emitted # <<>> /\ SameToken(token, all_tokens[Len(emitted)]))
    /\ (last_advance = "false" => Len(emitted) = Len(all_tokens))
    /\ (last_read # <<>> =>
            /\ last_read[1] = token
            /\ (emitted # <<>> => SameToken(last_read[1], all_tokens[Len(emitted)])))

\* the second of three computed tokens read after the second advance(), the
\* third still pending
C18_Witness ==
    /\ Len(all_tokens) = 3
    /\ all_tokens[1] # all_tokens[2]
    /\ Len(emitted) = 2
    /\ last_advance = "true"
    /\ last_read = <<token>>
    /\ SameToken(token, all_tokens[2])
    /\ pending_tokens = <<all_tokens[3]>>

\* C19: the position wraps: an advance() that finds a next token while the
\* position is the largest value of its width returns true, sets the position
\* to 0 and makes the current token that next token, text and offsets.
C19_PositionWraps ==
    [][(streams' = streams /\ pending_tokens # <<>> /\ token.position = PosMod - 1) =>
           /\ last_advance' = "true"
           /\ token'.position = 0
           /\ SameToken(token', Head(pending_tokens))
           /\ emitted' = Append(emitted, token')
           /\ pending_tokens' = Tail(pending_tokens)]_vars

\* a reused tokenizer whose position was the largest value after the first
\* token of its second stream: the second token has position 0
C19_Witness ==
    /\ streams = 2
    /\ Len(emitted) >= 2
    /\ emitted[1].position = PosMod - 1
    /\ emitted[2].position = 0
    /\ SameToken(emitted[2], all_tokens[2])
    /\ emitted[2].text # <<>>

----------------------------------------------------------------------------
(* Claims about byte offsets.                                              *)

\* token tk was formed without elision, merge or compounding: it is a token
\* of split_word_tokens taken over as it is, with no elided apostrophe inside
Plain(tk) ==
    /\ \E j \in 1..Len(raw_tokens) : raw_tokens[j] = tk
    /\ \A i \in 1..Len(text) :
           Elided(i) =>
               \/ byte_index(text, i) < tk.offset_from
               \/ tk.offset_to <= byte_index(text, i)

\* C20: offsets are byte offsets into the text, multi-byte characters
\* included: a computed or emitted token formed without elision, merge or
\* compounding starts at the byte index of its first character, ends at the
\* byte index just past its last one, is as many bytes long as its text, and
\* text[offset_from..offset_to] is its text.
C20_OffsetsAreByteOffsets ==
    \A tk \in {all_tokens[k] : k \in 1..Len(all_tokens)}
              \cup {PendingToken(emitted[k].text, emitted[k].offset_from,
                                 emitted[k].offset_to) : k \in 1..Len(emitted)} :
        Plain(tk) =>
            /\ slice_ok(text, tk.offset_from, tk.offset_to)
            /\ slice(text, tk.offset_from, tk.offset_to) = tk.text
            /\ tk.offset_to - tk.offset_from = byte_len(tk.text)
            /\ tk.text # <<>>
            /\ text[char_at(text, tk.offset_from)] = tk.text[1]
            /\ tk.offset_to = byte_index(text, char_at(text, tk.offset_from) + Len(tk.text))

\* after an ideograph of three bytes, a word of a two-byte letter and a
\* one-byte letter: emitted second, from byte 3 to byte 6
C20_Witness ==
    /\ Len(emitted) = 2
    /\ SameToken(emitted[2], all_tokens[2])
    /\ Plain(all_tokens[2])
    /\ emitted[2].text = <<"eacute", "a">>
    /\ emitted[2].offset_from = 3
    /\ emitted[2].offset_to = 6

----------------------------------------------------------------------------
(* Claims about the spans and the texts of the whole result.               *)

\* the k-th token of the result is a dash compound: it stands at no place
\* that a token of merged_tokens takes
IsCompound(k) ==
    k \notin {OutIdx(merged_tokens, i) : i \in 1..Len(merged_tokens)}

\* the spans of two tokens have a byte in common
Overlap(a, b) == a.offset_from < b.offset_to /\ b.offset_from < a.offset_to

\* the c-th token of the result is the compound of a run and the k-th is one
\* of the sub-tokens of that run
SubTokenOf(k, c) ==
    \E run \in Runs(merged_tokens) :
        /\ c = OutIdx(merged_tokens, run[2]) + 1
        /\ \E i \in run[1]..run[2] : k = OutIdx(merged_tokens, i)

\* C21: in the order of the result the tokens that are no compounds have
\* strictly ordered, pairwise disjoint spans, each starting at or after the
\* end of the one before; two tokens overlap only when one is a dash compound
\* and the other a sub-token of its run.
C21_SpansOrderedAndDisjoint ==
    /\ \A k1 \in 1..Len(all_tokens) : \A k2 \in (k1 + 1)..Len(all_tokens) :
           ~IsCompound(k1) /\ ~IsCompound(k2) =>
               /\ all_tokens[k1].offset_to <= all_tokens[k2].offset_from
               /\ all_tokens[k1].offset_from < all_tokens[k2].offset_from
    /\ \A k1 \in 1..Len(all_tokens) : \A k2 \in 1..Len(all_tokens) :
           k1 # k2 /\ Overlap(all_tokens[k1], all_tokens[k2]) =>
               \/ IsCompound(k1) /\ SubTokenOf(k2, k1)
               \/ IsCompound(k2) /\ SubTokenOf(k1, k2)

\* a compound that overlaps its two sub-tokens, and a fourth token after a
\* space that overlaps none of them
C21_Witness ==
    /\ has_stream
    /\ Len(all_tokens) = 4
    /\ IsCompound(3)
    /\ Overlap(all_tokens[3], all_tokens[1])
    /\ Overlap(all_tokens[3], all_tokens[2])
    /\ ~IsCompound(4)
    /\ all_tokens[4].offset_from > all_tokens[3].offset_to

\* the characters of the model
Chars == {"a", "1", "apos", "grave", "-", " ", "/", ".", "_",
          "eacute", "modapos", "han", "rsquo", "emdash"}

AposChars == {ch \in Chars : is_apostrophe_like(ch)}

DashChars == {ch \in Chars : is_dash_like(ch)}

RECURSIVE Reduces(_, _, _)
\* tx is what is left of sl when some of its characters, all of them in the
\* set deletable, are deleted
Reduces(sl, tx, deletable) ==
    IF sl = <<>> THEN tx = <<>>
    ELSE \/ /\ tx # <<>>
            /\ Head(sl) = Head(tx)
            /\ Reduces(Tail(sl), Tail(tx), deletable)
         \/ /\ Head(sl) \in deletable
            /\ Reduces(Tail(sl), tx, deletable)

\* C22: every token of the result has a text that is not empty and
\* offset_from < offset_to; its text is text[offset_from..offset_to] with
\* nothing deleted but apostrophe-like characters and, in a compound only,
\* dash-like characters; so the text is no longer in bytes than the span, and
\* the span begins and ends with a character that is kept in the text.
C22_TextIsSpanMinusBridges ==
    \A k \in 1..Len(all_tokens) :
        LET tk == all_tokens[k]
        IN  /\ tk.text # <<>>
            /\ tk.offset_from < tk.offset_to
            /\ slice_ok(text, tk.offset_from, tk.offset_to)
            /\ LET sl == slice(text, tk.offset_from, tk.offset_to)
               IN  /\ Reduces(sl, tk.text,
                              IF IsCompound(k) THEN AposChars \cup DashChars
                                               ELSE AposChars)
                   /\ sl[1] = tk.text[1]
                   /\ sl[Len(sl)] = tk.text[Len(tk.text)]
            /\ byte_len(tk.text) <= tk.offset_to - tk.offset_from

\* a word with an elided apostrophe, a dash and a word: the compound is its
\* five bytes without the apostrophe and the dash
C22_Witness ==
    /\ has_stream
    /\ Len(raw_tokens) = 2
    /\ Len(all_tokens) = 3
    /\ IsCompound(3)
    /\ all_tokens[1].offset_to - all_tokens[1].offset_from = 3
    /\ Len(all_tokens[1].text) = 2
    /\ all_tokens[3].offset_to - all_tokens[3].offset_from = 5
    /\ byte_len(all_tokens[3].text) = 3

\* the i-th character of text is a word character that is kept: an
\* alphanumeric character of a word that is not elided
Kept(i) == WordOf(i) # 0 /\ is_alphanumeric(text[i]) /\ ~Elided(i)

RECURSIVE KeptChars(_)
\* the kept characters of text from the i-th on, in the order of the text
KeptChars(i) ==
    IF i > Len(text) THEN <<>>
    ELSE (IF Kept(i) THEN <<text[i]>> ELSE <<>>) \o KeptChars(i + 1)

RECURSIVE NonCompoundTexts(_)
\* the texts of the tokens of the result from the k-th on that are no
\* compounds, one after the other
NonCompoundTexts(k) ==
    IF k > Len(all_tokens) THEN <<>>
    ELSE (IF IsCompound(k) THEN <<>> ELSE all_tokens[k].text)
             \o NonCompoundTexts(k + 1)

\* C23: splitting and merging lose and duplicate nothing: every alphanumeric
\* character of a word that is not an elided apostrophe lies in the span of
\* exactly one token that is no compound, and the texts of those tokens, one
\* after the other in the order of the result, are these characters in the
\* order of the text.
C23_NoCharacterLostOrDuplicated ==
    /\ NonCompoundTexts(1) = KeptChars(1)
    /\ \A i \in 1..Len(text) :
           Kept(i) =>
               Cardinality({k \in 1..Len(all_tokens) :
                                /\ ~IsCompound(k)
                                /\ all_tokens[k].offset_from <= byte_index(text, i)
                                /\ byte_index(text, i + 1) <= all_tokens[k].offset_to})
                   = 1

\* a word with an elided apostrophe merged with a second word across an
\* apostrophe-like character: one token of three letters out of five
C23_Witness ==
    /\ has_stream
    /\ Len(text) = 5
    /\ Len(raw_tokens) = 2
    /\ Len(raw_tokens[1].text) = 2
    /\ \E i \in 1..Len(text) : Elided(i)
    /\ Len(merged_tokens) = 1
    /\ all_tokens = merged_tokens
    /\ all_tokens[1].text = KeptChars(1)
    /\ Len(all_tokens[1].text) = 3

----------------------------------------------------------------------------
(* Claims about the schema builder.                                        *)

\* thread t has finished a new_with_schema call that began when the builder
\* was consumed already
LateCallDone(t) == nws.late[t] /\ nws.pc[t] = "idle" /\ nws.result[t] # "none"

\* C24 (as claimed): the builder gives out its schema at most once, the call
\* that takes it consumes the builder also when the index cannot be made, and
\* every later new_with_schema with the builder returns SchemaBuilderError.
C24_LaterCallsSchemaBuilderError ==
    /\ nws.takes <= 1
    /\ (builder = <<>> <=> nws.takes = 1)
    /\ \A t \in Threads : LateCallDone(t) => nws.result[t] = "SchemaBuilderError"

\* C24 (amended): the builder gives out its schema at most once, to one
\* thread, however the calls interleave; the call that takes it consumes the
\* builder also when the index cannot be made afterwards; every later
\* new_with_schema with the builder fails, with SchemaBuilderError when its
\* directory opens (it gets to the build step) and with the error of the
\* directory otherwise; and once the builder is consumed it stays consumed,
\* an add_*_field call changing nothing.
C24_SchemaGivenOutOnce ==
    /\ [](/\ nws.takes <= 1
          /\ (builder = <<>> <=> nws.takes = 1)
          /\ Cardinality({t \in Threads : nws.schema[t] # <<>>}) <= 1
          /\ \A t \in Threads :
                 /\ (nws.result[t] \in {"Ok", "TantivyError"} => builder = <<>>)
                 /\ (nws.late[t] => nws.pc[t] # "built" /\ nws.schema[t] = <<>>)
                 /\ (LateCallDone(t) =>
                        /\ nws.reached[t] => nws.result[t] = "SchemaBuilderError"
                        /\ ~nws.reached[t] =>
                               nws.result[t] \in {"IoError", "OpenDirectoryError"}))
    /\ [][builder = <<>> => builder' = <<>>]_vars

\* the first call took the schema and failed to make the index; a field was
\* added afterwards; a later call by the other thread got SchemaBuilderError
C24_Witness ==
    /\ builder = <<>>
    /\ nws.takes = 1
    /\ nws.result[1] = "TantivyError"
    /\ ~nws.late[1]
    /\ nws.late_adds = 1
    /\ LateCallDone(2)
    /\ nws.result[2] = "SchemaBuilderError"

----------------------------------------------------------------------------
\* what index_doc and index_docs hand to the writer for a document: the
\* fields the schema has, in the order given
Stored(doc) ==
    [id |-> doc.id, fields |-> SelectSeq(doc.fields, LAMBDA f : f = "valid")]

\* the documents the writer holds, not yet committed
Staged(w) == [i \in 1..Len(w) |-> w[i].doc[1]]

\* the documents without those of this id
Without(docs, id) == SelectSeq(docs, LAMBDA d : d.id # id)

\* the last step was a call of one of these methods that returned Ok
Returned(names) == last_call'.name \in names /\ last_call'.result = "Ok"

FirstBad(docs) ==
    LET Bad(i) == \E j \in 1..Len(docs[i].fields) : docs[i].fields[j] = "invalid"
    IN  IF \E i \in 1..Len(docs) : Bad(i)
        THEN CHOOSE i \in 1..Len(docs) : Bad(i) /\ \A h \in 1..(i - 1) : ~Bad(h)
        ELSE Len(docs) + 1

====
